---- MODULE Spec2Model ----
(***************************************************************************)
(* Model of topq (src/src/lib.rs): a fixed-capacity "timeout priority      *)
(* queue".  The backing array, the occupied count and the timer are the    *)
(* program state; the payload table, the tick count since the last prune   *)
(* and the record of the last call are history variables used to state     *)
(* properties.                                                             *)
(***************************************************************************)
EXTENDS Integers, Sequences, FiniteSets, TLC

\* ---------------------------------------------------------------- bounds
N == 2              \* capacity of the backing array (type parameter N)
Wrap == 3           \* the timer counts modulo Wrap (2^32 for the tests' u32)
MaxPrio == 3        \* priorities are 1..MaxPrio
MaxValid == 1       \* longest valid_for handed to insert (never more than Wrap - 1)

\* Capacity of the queue that holds payloads with a destructor: prune releases
\* the payload of an entry it keeps only when three entries are stored.
DropCapacity == N + 1

Times == 0 .. (Wrap - 1)
Prios == 1 .. MaxPrio
Durations == 0 .. (IF MaxValid < Wrap THEN MaxValid ELSE Wrap - 1)
HalfWrap == Wrap \div 2
\* A payload is named by a token.  The payload stored under priority p, or handed
\* to insert with priority p, is Token(p); while an insert replaces the payload
\* stored under p, that older payload is OldToken(p).
Token(prio) == 2 * prio
OldToken(prio) == 2 * prio + 1
Tokens == 2 .. (2 * MaxPrio + 1)

VARIABLES
    capacity,     \* N::to_usize(), fixed by the type
    queue,        \* slots 0..capacity-1 of the backing array; slot capacity is the
                  \* first address past it
    used,         \* number of occupied slots
    timer,        \* value Timer::now() returns
    needs_drop,   \* whether the payload type D has a destructor (fixed by the type)
    payloads,     \* per stored payload: times dropped, ticks since insertion, valid_for
    maxReleased,  \* most times any one payload was dropped, up to the end of the last call
    sincePrune,   \* ticks since the last prune, counted for an owner that prunes on time
    op            \* the last call: kind, priority argument, used before it, had (insert:
                  \* the priority was stored before it; prune: the call before it was a
                  \* prune as well), return value

vars == <<capacity, queue, used, timer, needs_drop, payloads, maxReleased, sincePrune, op>>

\* ---------------------------------------------------------------- entries
\* Bits of a slot that was never written (MaybeUninit::uninit()).
Uninit == [item |-> 0, prio |-> 0, start_time |-> 0, expiry_time |-> 0]

\* Option::None of get_item.
NoItem == [item |-> -1, prio |-> 0, start_time |-> 0, expiry_time |-> 0]

TopqItem(item, prio, start_time, expiry_time) ==
    [item |-> item, prio |-> prio, start_time |-> start_time, expiry_time |-> expiry_time]

\* FakeTimer::wrapping_add on a counter of Wrap values.
wrapping_add(time, offset) == (time + offset) % Wrap

\* valid_at_time with the rollover branch joined by "and" instead of "or".
valid_at_time_and(self, time) ==
    IF self.start_time < self.expiry_time
    THEN self.start_time <= time /\ time <= self.expiry_time
    ELSE time >= self.start_time /\ time <= self.expiry_time

\* valid_at_time with a window that opens one tick after start_time.
valid_at_time_after(self, time) ==
    IF self.start_time < self.expiry_time
    THEN self.start_time < time /\ time <= self.expiry_time
    ELSE time > self.start_time \/ time <= self.expiry_time

valid_at_time(self, time) ==
    IF self.start_time < self.expiry_time
    THEN self.start_time <= time /\ time <= self.expiry_time
    ELSE time >= self.start_time \/ time <= self.expiry_time

\* ---------------------------------------------------------------- raw memory
\* core::ptr::drop_in_place: runs the destructor of the payload whose bits are in e;
\* it does nothing for a payload type without one (the tests' u32).
\* The count of drops of one payload stops at 2, which stands for "more than once".
drop_in_place(pl, e) ==
    IF needs_drop THEN [pl EXCEPT ![e.item].released = IF @ < 2 THEN @ + 1 ELSE 2] ELSE pl

\* core::ptr::write: overwrites slot i without dropping what was there.
ptr_write(q, i, e) == [q EXCEPT ![i] = e]

\* A copy that moves one slot whatever the count.
ptr_copy_one(q, src, dst, count) ==
    [i \in DOMAIN q |-> IF i = dst /\ count > 0 THEN q[src] ELSE q[i]]

\* core::ptr::copy (memmove) of count slots from src to dst; the source bits stay.
ptr_copy(q, src, dst, count) ==
    [i \in DOMAIN q |-> IF dst <= i /\ i < dst + count THEN q[i - dst + src] ELSE q[i]]

\* ---------------------------------------------------------------- insert
\* Ordering of new_item.prio.cmp(&ti.prio).
prio_cmp(new_prio, ti_prio) ==
    IF new_prio < ti_prio THEN "Less"
    ELSE IF new_prio > ti_prio THEN "Greater" ELSE "Equal"

RECURSIVE bsearch(_, _, _, _)
bsearch(q, prio, left, right) ==
    IF left >= right THEN [ok |-> FALSE, idx |-> left]
    ELSE LET mid == left + ((right - left) \div 2)
             cmp == prio_cmp(prio, q[mid].prio)
         IN  IF cmp = "Less" THEN bsearch(q, prio, mid + 1, right)
             ELSE IF cmp = "Greater" THEN bsearch(q, prio, left, mid)
             ELSE [ok |-> TRUE, idx |-> mid]

\* A search that reports an equal priority as an insertion position.
binary_search_by_miss(q, u, prio) == [ok |-> FALSE, idx |-> bsearch(q, prio, 0, u).idx]

\* A search that always reports the end of the occupied region.
binary_search_by_end(q, u, prio) == [ok |-> FALSE, idx |-> u]

\* slice[0..used).binary_search_by(|ti| new_item.prio.cmp(&ti.prio))
binary_search_by(q, u, prio) == bsearch(q, prio, 0, u)

\* A replacement that drops the old item but never writes the new one.
insert_replace_keep(q, u, pl, new_item, idx) ==
    [queue |-> q, used |-> u, payloads |-> drop_in_place(pl, q[idx])]

\* Ok(idx): drop the old item and write the new one in its slot.
insert_replace(q, u, pl, new_item, idx) ==
    [queue |-> ptr_write(q, idx, new_item), used |-> u,
     payloads |-> drop_in_place(pl, q[idx])]

\* A full queue that gives its last slot to a candidate of lower priority.
insert_off_end_overwrite(q, u, pl, new_item, idx) ==
    [queue |-> ptr_write(q, idx - 1, new_item), used |-> u,
     payloads |-> drop_in_place(pl, q[idx - 1])]

\* A full queue that gives its last slot to a candidate of lower priority when
\* the entry in that slot has expired.
insert_off_end_reclaim(q, u, pl, new_item, idx) ==
    IF valid_at_time(q[idx - 1], new_item.start_time)
    THEN [queue |-> q, used |-> u, payloads |-> drop_in_place(pl, new_item)]
    ELSE [queue |-> ptr_write(q, idx - 1, new_item), used |-> u,
          payloads |-> drop_in_place(pl, q[idx - 1])]

\* Err(idx) if idx == N: nothing stored; new_item goes out of scope and is dropped.
insert_off_end(q, u, pl, new_item, idx) ==
    [queue |-> q, used |-> u, payloads |-> drop_in_place(pl, new_item)]

\* Err(idx) if idx == self.used: append.
insert_append(q, u, pl, new_item, idx) ==
    [queue |-> ptr_write(q, idx, new_item), used |-> u + 1, payloads |-> pl]

\* A shift that does not make room first when the array is full.
insert_shift_keep_tail(q, u, pl, new_item, idx) ==
    [queue |-> ptr_write(ptr_copy(q, idx, idx + 1, u - idx), idx, new_item),
     used |-> u + 1, payloads |-> pl]

\* A shift that writes the new item over the entry at idx instead of moving the tail.
insert_shift_overwrite(q, u, pl, new_item, idx) ==
    [queue |-> ptr_write(q, idx, new_item), used |-> u,
     payloads |-> drop_in_place(pl, q[idx])]

\* Err(idx): drop the last item when full, shift the tail, write the new item.
insert_shift(q, u, pl, new_item, idx) ==
    LET full == (u = capacity)
        u1   == IF full THEN u - 1 ELSE u
        pl1  == IF full THEN drop_in_place(pl, q[u1]) ELSE pl
        q1   == ptr_copy(q, idx, idx + 1, u1 - idx)
    IN  [queue |-> ptr_write(q1, idx, new_item), used |-> u1 + 1, payloads |-> pl1]

insert_item(q, u, pl, new_item) ==
    LET result_idx == binary_search_by(q, u, new_item.prio)
        idx == result_idx.idx
    IN  IF result_idx.ok THEN insert_replace(q, u, pl, new_item, idx)
        ELSE IF idx = capacity THEN insert_off_end(q, u, pl, new_item, idx)
        ELSE IF idx = u THEN insert_append(q, u, pl, new_item, idx)
        ELSE insert_shift(q, u, pl, new_item, idx)

\* ---------------------------------------------------------------- prune
\* A loop body that counts a valid entry without moving it to the good position.
prune_step_no_move(st, idx, time) ==
    IF valid_at_time(st.queue[idx], time)
    THEN [st EXCEPT !.good = @ + 1]
    ELSE [st EXCEPT !.payloads = drop_in_place(st.payloads, st.queue[idx])]

\* A loop body that drops the destination slot even when the entry is in place.
prune_step_drop_in_place(st, idx, time) ==
    IF valid_at_time(st.queue[idx], time)
    THEN [queue    |-> ptr_copy(st.queue, idx, st.good, 1),
          good     |-> st.good + 1,
          payloads |-> drop_in_place(st.payloads, st.queue[st.good])]
    ELSE [st EXCEPT !.payloads = drop_in_place(st.payloads, st.queue[idx])]

\* One iteration of the loop body of prune, for slot idx; st = [queue, good, payloads].
prune_step(st, idx, time) ==
    IF valid_at_time(st.queue[idx], time)
    THEN IF st.good /= idx
         THEN [queue    |-> ptr_copy(st.queue, idx, st.good, 1),
               good     |-> st.good + 1,
               payloads |-> drop_in_place(st.payloads, st.queue[st.good])]
         ELSE [st EXCEPT !.good = @ + 1]
    ELSE [st EXCEPT !.payloads = drop_in_place(st.payloads, st.queue[idx])]

RECURSIVE prune_loop(_, _, _, _)
prune_loop(st, idx, u, time) ==
    IF idx >= u THEN st ELSE prune_loop(prune_step(st, idx, time), idx + 1, u, time)

prune(q, u, pl, time) ==
    LET st == prune_loop([queue |-> q, good |-> 0, payloads |-> pl], 0, u, time)
    IN  [queue |-> st.queue, used |-> st.good, payloads |-> st.payloads]

\* ---------------------------------------------------------------- peek
RECURSIVE iter_find(_, _, _, _)
iter_find(q, i, u, time) ==
    IF i >= u THEN NoItem
    ELSE IF valid_at_time(q[i], time) THEN q[i] ELSE iter_find(q, i + 1, u, time)

\* A peek that returns the first stored entry without looking at its window.
get_item_first(q, u, time) == IF u > 0 THEN q[0] ELSE NoItem

get_item(q, u, time) == iter_find(q, 0, u, time)

get_data(q, u, time) == get_item(q, u, time).item

\* ---------------------------------------------------------------- state machine
NoRet == Uninit

NoPayload == [released |-> 0, age |-> 0, valid_for |-> 0]

\* Tokens of the entries of the occupied region.
Stored(q, u) == {q[i].item : i \in 0 .. (u - 1)}

\* The array and the payload table as insert(_, prio, _) finds them: the payload
\* stored under prio, if any, is the older of the two payloads of that priority.
retoken(q, u, prio) ==
    [i \in DOMAIN q |-> IF i < u /\ q[i].prio = prio
                        THEN [q[i] EXCEPT !.item = OldToken(prio)] ELSE q[i]]

handed(pl, prio, valid_for) ==
    [pl EXCEPT ![OldToken(prio)] = pl[Token(prio)],
               ![Token(prio)] = [released |-> 0, age |-> 0, valid_for |-> valid_for]]

\* Slots at or past used are uninitialised memory for every later call.
scrub(q, u) == [i \in DOMAIN q |-> IF u <= i /\ i < capacity THEN Uninit ELSE q[i]]

\* A payload no occupied slot refers to can no longer be reached by any call.
forget(pl, q, u) ==
    LET held == Stored(q, u)
    IN  [t \in Tokens |-> IF t \in held THEN pl[t] ELSE NoPayload]

\* The most times one payload has been dropped (2 stands for "more than once").
worst(pl) == IF ~needs_drop THEN 0
             ELSE IF \E t \in Tokens : pl[t].released > 1 THEN 2
             ELSE IF \E t \in Tokens : pl[t].released = 1 THEN 1 ELSE 0

Init ==
    /\ capacity = N
    /\ queue = [i \in 0 .. N |-> Uninit]
    /\ used = 0
    /\ timer = 0
    /\ needs_drop = FALSE
    /\ payloads = [t \in Tokens |-> NoPayload]
    /\ maxReleased = 0
    /\ sincePrune = 0
    /\ op = [kind |-> "new", prio |-> 0, n |-> 0, had |-> FALSE, ret |-> NoRet]

Insert(prio, valid_for) ==
    /\ LET now      == timer
           exp      == wrapping_add(now, valid_for)
           new_item == TopqItem(Token(prio), prio, now, exp)
           r        == insert_item(retoken(queue, used, prio), used,
                                   handed(payloads, prio, valid_for), new_item)
       IN  /\ queue' = scrub(r.queue, r.used)
           /\ used' = r.used
           /\ payloads' = forget(r.payloads, r.queue, r.used)
           /\ maxReleased' = worst(r.payloads)
    /\ op' = [kind |-> "insert", prio |-> prio, n |-> used,
              had |-> (\E i \in 0 .. (used - 1) : queue[i].prio = prio), ret |-> NoRet]
    /\ UNCHANGED <<capacity, timer, needs_drop, sincePrune>>

Prune ==
    /\ LET r == prune(queue, used, payloads, timer)
       IN  /\ queue' = scrub(r.queue, r.used)
           /\ used' = r.used
           /\ payloads' = forget(r.payloads, r.queue, r.used)
           /\ maxReleased' = worst(r.payloads)
    /\ sincePrune' = 0
    /\ op' = [kind |-> "prune", prio |-> 0, n |-> used, had |-> (op.kind = "prune"),
              ret |-> NoRet]
    /\ UNCHANGED <<capacity, timer, needs_drop>>

\* A peek that removes the expired entries while it scans.
GetItemPruning ==
    /\ LET r == prune(queue, used, payloads, timer)
       IN  /\ queue' = scrub(r.queue, r.used)
           /\ used' = r.used
           /\ payloads' = forget(r.payloads, r.queue, r.used)
           /\ maxReleased' = worst(r.payloads)
    /\ op' = [kind |-> "get_item", prio |-> 0, n |-> used, had |-> FALSE,
              ret |-> get_item(queue, used, timer)]
    /\ UNCHANGED <<capacity, timer, needs_drop, sincePrune>>

GetItem ==
    /\ op' = [kind |-> "get_item", prio |-> 0, n |-> used, had |-> FALSE,
              ret |-> get_item(queue, used, timer)]
    /\ maxReleased' = worst(payloads)
    /\ UNCHANGED <<capacity, queue, used, timer, needs_drop, payloads, sincePrune>>

\* The hardware counter advances by one tick and wraps; ages are not followed.
Tick ==
    /\ timer' = wrapping_add(timer, 1)
    /\ maxReleased' = worst(payloads)
    /\ op' = [kind |-> "tick", prio |-> 0, n |-> used, had |-> FALSE, ret |-> NoRet]
    /\ UNCHANGED <<capacity, queue, used, needs_drop, payloads, sincePrune>>

\* A tick taken while the owner keeps its promise to prune twice per wrap period;
\* the age of every stored payload is followed (Wrap stands for "Wrap or more").
TickPruned ==
    /\ sincePrune < HalfWrap
    /\ sincePrune' = sincePrune + 1
    /\ timer' = wrapping_add(timer, 1)
    /\ payloads' = [t \in Tokens |->
                      IF t \in Stored(queue, used) /\ payloads[t].age < Wrap
                      THEN [payloads[t] EXCEPT !.age = @ + 1] ELSE payloads[t]]
    /\ maxReleased' = worst(payloads)
    /\ op' = [kind |-> "tick", prio |-> 0, n |-> used, had |-> FALSE, ret |-> NoRet]
    /\ UNCHANGED <<capacity, queue, used, needs_drop>>

Next ==
    \/ \E prio \in Prios, valid_for \in Durations : Insert(prio, valid_for)
    \/ Prune
    \/ GetItem
    \/ Tick

Spec == Init /\ [][Next]_vars

NextPruned ==
    \/ \E prio \in Prios, valid_for \in Durations : Insert(prio, valid_for)
    \/ Prune
    \/ GetItem
    \/ TickPruned

SpecPruned == Init /\ [][NextPruned]_vars

\* The same queue holding payloads that have a destructor.
InitDrop ==
    /\ capacity = DropCapacity
    /\ queue = [i \in 0 .. DropCapacity |-> Uninit]
    /\ used = 0
    /\ timer = 0
    /\ needs_drop = TRUE
    /\ payloads = [t \in Tokens |-> NoPayload]
    /\ maxReleased = 0
    /\ sincePrune = 0
    /\ op = [kind |-> "new", prio |-> 0, n |-> 0, had |-> FALSE, ret |-> NoRet]

SpecDrop == InitDrop /\ [][Next]_vars

\* The queue goes out of scope.  Topq has no Drop implementation and its array is
\* a MaybeUninit, whose drop glue does not touch the contents: the fields are
\* given up as they are and no payload is dropped.  queue and used keep what the
\* memory held at that moment.
Destroy ==
    /\ op' = [kind |-> "drop", prio |-> 0, n |-> used, had |-> FALSE, ret |-> NoRet]
    /\ maxReleased' = worst(payloads)
    /\ UNCHANGED <<capacity, queue, used, timer, needs_drop, payloads, sincePrune>>

\* No call can be made on a queue that was dropped.
Alive == op.kind /= "drop"

NextDestroy ==
    \/ Alive /\ \E prio \in Prios, valid_for \in Durations : Insert(prio, valid_for)
    \/ Alive /\ Prune
    \/ Alive /\ GetItem
    \/ Alive /\ Tick
    \/ Alive /\ Destroy

\* The life of a queue of payloads with a destructor, up to its destruction.
SpecDestroy == InitDrop /\ [][NextDestroy]_vars

\* A queue of payloads with a destructor that is created at any tick and filled,
\* at that tick, with entries of pairwise distinct priorities, no more than fit.
InitBatch ==
    /\ capacity = DropCapacity
    /\ queue = [i \in 0 .. DropCapacity |-> Uninit]
    /\ used = 0
    /\ timer \in Times
    /\ needs_drop = TRUE
    /\ payloads = [t \in Tokens |-> NoPayload]
    /\ maxReleased = 0
    /\ sincePrune = 0
    /\ op = [kind |-> "new", prio |-> 0, n |-> 0, had |-> FALSE, ret |-> NoRet]

\* Nothing but inserts has happened yet.
Filling == op.kind \in {"new", "insert"}

\* prio is not stored.
Fresh(prio) == \A i \in 0 .. (used - 1) : queue[i].prio /= prio

NextBatch ==
    \/ \E prio \in Prios, valid_for \in Durations :
          Filling /\ used < capacity /\ Fresh(prio) /\ Insert(prio, valid_for)
    \/ Prune
    \/ GetItem
    \/ Tick

SpecBatch == InitBatch /\ [][NextBatch]_vars

\* ---------------------------------------------------------------- properties
\* The occupied region as a sequence, highest slot index last.
Occupied(q, u) == [i \in 1 .. u |-> q[i - 1]]

\* The entries of a sequence whose window, by the code's predicate, covers time.
ValidOnes(seq, time) ==
    LET Test(e) == valid_at_time(e, time) IN SelectSeq(seq, Test)

\* C1: after any sequence of insert and prune calls the occupied region is sorted
\* strictly descending by priority, so no two stored entries share a priority.
C1_SortedStrictlyDescending ==
    \A i \in 0 .. (used - 2) : queue[i].prio > queue[i + 1].prio

\* A full queue right after an insert that found its priority absent.
C1_Witness ==
    /\ op.kind = "insert" /\ ~op.had /\ op.n = capacity - 1 /\ used = capacity
    /\ queue[0].item /= Token(op.prio)

\* C2: 0 <= used <= N always, and no insert or prune step writes or shifts an
\* entry into a slot of index N or more (the slot past the array is never written).
C2_UsedWithinCapacity ==
    /\ 0 <= used /\ used <= capacity
    /\ queue[capacity] = Uninit

\* An insert of an absent priority into a full queue that landed before the last
\* slot, so that the tail was shifted.
C2_Witness ==
    /\ op.kind = "insert" /\ ~op.had /\ op.n = capacity /\ used = capacity
    /\ \E i \in 0 .. (capacity - 2) : queue[i].prio = op.prio

\* C3: get_item returns the stored entry of greatest priority among those valid
\* at the current tick, and none exactly when no stored entry is valid.
C3_PeekHighestValid ==
    LET r == get_item(queue, used, timer)
        V == {i \in 0 .. (used - 1) : valid_at_time(queue[i], timer)}
    IN  /\ (V = {}) <=> (r = NoItem)
        /\ V /= {} => \E i \in V : /\ r = queue[i]
                                  /\ \A j \in V : queue[j].prio <= queue[i].prio
        /\ op.kind = "get_item" => op.ret = r

\* A peek that skipped an expired entry of higher priority.
C3_Witness ==
    /\ op.kind = "get_item" /\ op.ret /= NoItem
    /\ used >= 2 /\ op.ret /= queue[0]
    /\ ~valid_at_time(queue[0], timer)

C5_ReleasedAtMostOnce == maxReleased <= 1

\* C6: every entry of the occupied region holds a payload that was never released.
C6_StoredPayloadsLive ==
    \A i \in 0 .. (used - 1) : payloads[queue[i].item].released = 0

\* C7: with prune called at least twice per wrap period, get_item never returns
\* an entry more than valid_for elapsed ticks after its insertion.
C7_NeverReturnedPastWindow ==
    LET r == get_item(queue, used, timer)
    IN  r /= NoItem => payloads[r.item].age <= payloads[r.item].valid_for

\* C8: an entry inserted with valid_for = 0 is valid at its start tick only.
C8_ZeroWindowOnlyAtStart ==
    \A i \in 0 .. (used - 1) :
        payloads[queue[i].item].valid_for = 0 =>
            \A t \in Times : valid_at_time(queue[i], t) <=> (t = queue[i].start_time)

\* C9: an entry inserted at tick s with duration d, 0 < d < Wrap, is valid at
\* tick t exactly when t = (s + k) mod Wrap for some k in 0..d.
C9_WindowIsStartThroughExpiry ==
    \A i \in 0 .. (used - 1) :
        LET e == queue[i]
            d == payloads[e.item].valid_for
        IN  d > 0 =>
              \A t \in Times :
                  valid_at_time(e, t) <=> (\E k \in 0 .. d : t = (e.start_time + k) % Wrap)

\* A stored entry whose window wraps, returned by a peek after the wrap.
C9_Witness ==
    /\ op.kind = "get_item" /\ op.ret /= NoItem
    /\ op.ret.start_time > op.ret.expiry_time
    /\ payloads[op.ret.item].valid_for > 0
    /\ timer <= op.ret.expiry_time

\* C10: insert at a stored priority replaces that entry's data, start_time and
\* expiry_time, leaves used unchanged and leaves every other entry in place.
C10_ReplaceInPlace ==
    [][(op'.kind = "insert" /\ \E i \in 0 .. (used - 1) : queue[i].prio = op'.prio) =>
          /\ used' = used
          /\ \A i \in 0 .. (used - 1) :
                IF queue[i].prio = op'.prio
                THEN queue'[i] = TopqItem(Token(op'.prio), op'.prio, timer,
                         (timer + payloads'[Token(op'.prio)].valid_for) % Wrap)
                ELSE queue'[i] = queue[i]]_vars

\* A replacement in a full queue that also holds an entry inserted at another tick.
C10_Witness ==
    /\ op.kind = "insert" /\ op.had /\ op.n = capacity /\ used = capacity
    /\ \E i \in 0 .. (used - 1) : queue[i].prio = op.prio /\ queue[i].start_time = timer
    /\ \E j \in 0 .. (used - 1) : queue[j].start_time /= timer

\* C11: insert into a full queue of an absent priority higher than the lowest
\* stored one removes exactly the previous lowest entry, stores the new entry,
\* keeps every other entry unchanged and leaves used at N.
C11_EvictLowestWhenFull ==
    [][(/\ op'.kind = "insert" /\ used = capacity
        /\ \A i \in 0 .. (used - 1) : queue[i].prio /= op'.prio
        /\ op'.prio > queue[used - 1].prio) =>
          LET kept  == {queue[i] : i \in 0 .. (used - 2)}
              after == {queue'[i] : i \in 0 .. (used' - 1)}
          IN  /\ used' = capacity
              /\ queue[used - 1] \notin after
              /\ \E d \in Durations :
                    after = kept \cup {TopqItem(Token(op'.prio), op'.prio, timer,
                                                wrapping_add(timer, d))}]_vars

\* A new highest priority stored in a full queue next to an older entry.
C11_Witness ==
    /\ op.kind = "insert" /\ ~op.had /\ op.n = capacity /\ used = capacity
    /\ queue[0].prio = op.prio /\ queue[0].start_time = timer
    /\ \E j \in 1 .. (used - 1) : queue[j].start_time /= timer

\* C12: insert into a full queue of a priority lower than every stored one leaves
\* used and every stored entry as they were and reports nothing.
C12_RefusedWhenFullAndLowest ==
    [][(/\ op'.kind = "insert" /\ used = capacity
        /\ \A i \in 0 .. (used - 1) : queue[i].prio > op'.prio) =>
          /\ queue' = queue
          /\ used' = used
          /\ op'.ret = NoRet]_vars

\* A full queue right after it refused a candidate of the lowest priority.
C12_Witness ==
    /\ op.kind = "insert" /\ ~op.had /\ op.n = capacity /\ used = capacity
    /\ \A i \in 0 .. (used - 1) : queue[i].prio > op.prio

\* C13: right after insert of a priority strictly higher than every stored one,
\* at the same tick, get_data returns the new payload.
C13_NewHighestIsPeeked ==
    [][(/\ op'.kind = "insert"
        /\ \A i \in 0 .. (used - 1) : queue[i].prio < op'.prio) =>
          get_data(queue', used', timer') = Token(op'.prio)]_vars

\* A new highest priority with a window that wraps, stored in a full queue.
C13_Witness ==
    /\ op.kind = "insert" /\ ~op.had /\ op.n = capacity /\ used = capacity
    /\ queue[0].prio = op.prio /\ queue[0].start_time = timer
    /\ queue[0].expiry_time < queue[0].start_time

\* C15: get_item and get_data leave used and every stored entry as they were;
\* entries expired at the sampled tick stay stored.
C15_PeekLeavesQueue ==
    [][op'.kind = "get_item" =>
          /\ queue' = queue
          /\ used' = used
          /\ payloads' = payloads]_vars

\* A peek that found nothing in a full queue, whose expired entries are still stored.
C15_Witness ==
    /\ op.kind = "get_item" /\ op.ret = NoItem /\ used = capacity
    /\ \A i \in 0 .. (used - 1) : ~valid_at_time(queue[i], timer)

\* C16: when the queue is destroyed, the payload of every entry of the occupied
\* region is released.
C16_DestroyReleasesStored ==
    op.kind = "drop" => \A i \in 0 .. (used - 1) : payloads[queue[i].item].released >= 1

\* The priorities of the occupied region, in slot order.
PrioSeq(q, u) == [i \in 1 .. u |-> q[i - 1].prio]

\* An entry of the same priority with another payload and other times.
twin(e) == [item |-> OldToken(e.prio), prio |-> e.prio, start_time |-> 0, expiry_time |-> 0]

\* A queue holding the same priority sequence with other payloads and times.
twin_queue(q, u) == [i \in DOMAIN q |-> IF i < u THEN twin(q[i]) ELSE q[i]]

\* insert of prio, at tick 0 and with another payload, into the twin of the queue.
insert_on_twin(prio) ==
    insert_item(twin_queue(queue, used), used, payloads, twin(TopqItem(Token(prio), prio, 0, 0)))

\* What an insert leaves behind as far as priorities go: used and the priority
\* sequence.
InsertOutcome(r) == <<r.used, PrioSeq(r.queue, r.used)>>

\* C18: for every reachable queue and every priority, used and the priority
\* sequence after insert are those the same insert yields on a queue with the
\* same priority sequence and other payloads and times.
C18_OutcomeFromPrioritiesOnly ==
    \A prio \in Prios :
        InsertOutcome(insert_item(retoken(queue, used, prio), used, payloads,
                                  TopqItem(Token(prio), prio, timer, timer))) =
            InsertOutcome(insert_on_twin(prio))

\* A full queue that refused a candidate, valid as every candidate is, while an
\* expired entry kept its slot.
C18_Witness ==
    /\ op.kind = "insert" /\ ~op.had /\ op.n = capacity /\ used = capacity
    /\ \A i \in 0 .. (used - 1) : queue[i].prio /= op.prio
    /\ \E i \in 0 .. (used - 1) : ~valid_at_time(queue[i], timer)

\* C19: get_item right after prune, at the same tick, returns the same entry
\* with the same data as get_item right before it, or none in both cases.
C19_PruneKeepsPeek ==
    [][op'.kind = "prune" =>
          LET before == get_item(queue, used, timer)
              after  == get_item(queue', used', timer')
          IN  /\ after = before
              /\ after /= NoItem =>
                    payloads'[after.item].released = payloads[before.item].released]_vars

\* The orders in which the entries of a set can be handed to insert.
Orders(S) ==
    {f \in [1 .. Cardinality(S) -> S] : \A i, j \in DOMAIN f : i /= j => f[i] /= f[j]}

\* insert_item applied to the entries seq[k], seq[k + 1], ... in turn.
RECURSIVE insert_all(_, _, _)
insert_all(st, seq, k) ==
    IF k > Len(seq) THEN st
    ELSE insert_all(insert_item(st.queue, st.used, st.payloads, seq[k]), seq, k + 1)

\* Topq::new
Empty ==
    [queue |-> [i \in 0 .. capacity |-> Uninit], used |-> 0,
     payloads |-> [t \in Tokens |-> NoPayload]]

\* C14: the entries of a queue filled at one tick with distinct priorities, handed
\* to an empty queue in any order, give the same occupied region, and so the
\* same get_data at every later tick.
C14_OrderIndependent ==
    \A f \in Orders({queue[i] : i \in 0 .. (used - 1)}) :
        LET r == insert_all(Empty, f, 1)
        IN  /\ r.used = used
            /\ \A i \in 0 .. (used - 1) : r.queue[i] = queue[i]
            /\ \A t \in Times : get_data(r.queue, r.used, t) = get_data(queue, used, t)

\* A queue filled to capacity whose highest priority was inserted last.
C14_Witness ==
    /\ op.kind = "insert" /\ used = capacity /\ capacity >= 3
    /\ queue[0].prio = op.prio
    /\ \A i \in 0 .. (used - 1) : queue[i].start_time = timer

\* C17: insert of an absent priority into a queue with room stores the new entry
\* at the position that keeps the order descending, keeps every earlier entry
\* unchanged and in the same relative order, and adds one to used.
C17_InsertWhenRoom ==
    [][(op'.kind = "insert" /\ used < capacity /\ Fresh(op'.prio)) =>
          /\ used' = used + 1
          /\ \E k \in 0 .. used, d \in Durations :
                /\ queue'[k] = TopqItem(Token(op'.prio), op'.prio, timer,
                                        wrapping_add(timer, d))
                /\ \A i \in 0 .. (k - 1) :
                      queue'[i] = queue[i] /\ queue[i].prio > op'.prio
                /\ \A i \in k .. (used - 1) :
                      queue'[i + 1] = queue[i] /\ queue[i].prio < op'.prio]_vars

\* An insert between two stored entries.
C17_Witness ==
    /\ op.kind = "insert" /\ ~op.had /\ op.n = 2 /\ used = 3
    /\ queue[1].prio = op.prio
    /\ queue[0].expiry_time /= queue[2].expiry_time

\* C20: right after any prune every stored entry is valid at the sampled tick,
\* and a prune that follows a prune at the same tick leaves used and every
\* stored entry unchanged and releases no payload.
C20_PruneIdempotent ==
    [][op'.kind = "prune" =>
          /\ \A i \in 0 .. (used' - 1) : valid_at_time(queue'[i], timer')
          /\ op.kind = "prune" =>
                /\ queue' = queue
                /\ used' = used
                /\ payloads' = payloads]_vars

\* A second prune at the tick of a first one that had removed an entry and kept
\* others.
C20_Witness ==
    /\ op.kind = "prune" /\ op.had
    /\ 0 < used /\ used < capacity
    /\ \E i \in 0 .. (used - 1) : payloads[queue[i].item].valid_for > 0

====
